---- MODULE Spec2Model ----
(***************************************************************************)
(* Model of the Streamlit audio chatbot (src/transcribe_app.py): the two   *)
(* stage Deepgram transcription (multipart attempt, then raw-body          *)
(* fallback), the upload validation, and the chat session state that the   *)
(* script keeps in st.session_state across script runs.                    *)
(*                                                                         *)
(* One action is one user interaction followed by the complete script run  *)
(* (and the rerun that st.rerun() requests).  Text is a sequence of        *)
(* characters, so that str.strip() is computed and not assumed.            *)
(***************************************************************************)
EXTENDS Integers, Sequences, FiniteSets, TLC

VARIABLES session, uploaded, out, stub, acqlog

vars == <<session, uploaded, out, stub, acqlog>>

(***************************************************************************)
(* Bounds of the model.                                                    *)
(***************************************************************************)
\* Longest st.session_state.history for which a further prompt is submitted.
MaxHistory == 7
\* Number of standalone acquisitions run against one deterministic stub.
MaxCalls == 3

(***************************************************************************)
(* Text: str.strip()                                                       *)
(***************************************************************************)
Whitespace == {" "}

RECURSIVE lstrip(_)
lstrip(s) ==
    IF s = <<>> THEN <<>>
    ELSE IF Head(s) \in Whitespace THEN lstrip(Tail(s)) ELSE s

RECURSIVE rstrip(_)
rstrip(s) ==
    IF s = <<>> THEN <<>>
    ELSE IF s[Len(s)] \in Whitespace THEN rstrip(SubSeq(s, 1, Len(s) - 1)) ELSE s

strip(s) == rstrip(lstrip(s))

\* Python's None / a returned str.
None == [some |-> FALSE, text |-> <<>>]
Some(t) == [some |-> TRUE, text |-> t]
\* Truthiness of an optional str: "if transcript:".
Truthy(v) == v.some /\ v.text # <<>>

(***************************************************************************)
(* Provider responses.  A response is either a transport exception         *)
(* (exc # "") or an HTTP response with a status, a raw body (text) and the *)
(* value response.json() would give (json.valid = FALSE: the body is not   *)
(* JSON and json() raises).                                                *)
(***************************************************************************)
Alt(hasT, isStr, t) == [has_transcript |-> hasT, is_str |-> isStr, transcript |-> t]
Chan(hasAlts, alts) == [has_alternatives |-> hasAlts, alternatives |-> alts]
Json(valid, hasR, hasC, chans) ==
    [valid |-> valid, has_results |-> hasR, has_channels |-> hasC, channels |-> chans]
NoJson == Json(FALSE, FALSE, FALSE, <<>>)
WithTranscript(t) == Json(TRUE, TRUE, TRUE, <<Chan(TRUE, <<Alt(TRUE, TRUE, t)>>)>>)

Http(status, text, json) == [exc |-> "", status |-> status, text |-> text, json |-> json]
Exc(desc) == [exc |-> desc, status |-> 0, text |-> "", json |-> NoJson]
NoResponse == Exc("")

Transcripts ==
    { <<>>, <<" ", " ">>, <<"h", "i">>, <<" ", "h", " ", "i", " ">> }

Responses ==
    { Exc("Connection reset by peer"),
      Exc("Read timed out"),
      Http(401, "invalid credentials", NoJson),
      Http(500, "server overloaded", NoJson),
      Http(200, "<html>", NoJson),
      Http(200, "{}", Json(TRUE, FALSE, FALSE, <<>>)),
      Http(200, "{results:{}}", Json(TRUE, TRUE, FALSE, <<>>)),
      Http(200, "{results:{channels:[]}}", Json(TRUE, TRUE, TRUE, <<>>)),
      Http(200, "{results:{channels:[{}]}}",
           Json(TRUE, TRUE, TRUE, <<Chan(FALSE, <<>>)>>)),
      Http(200, "{results:{channels:[{alternatives:[]}]}}",
           Json(TRUE, TRUE, TRUE, <<Chan(TRUE, <<>>)>>)),
      Http(200, "{results:{channels:[{alternatives:[{}]}]}}",
           Json(TRUE, TRUE, TRUE, <<Chan(TRUE, <<Alt(FALSE, FALSE, <<>>)>>)>>)),
      Http(200, "{results:{channels:[{alternatives:[{transcript:null}]}]}}",
           Json(TRUE, TRUE, TRUE, <<Chan(TRUE, <<Alt(TRUE, FALSE, <<>>)>>)>>)) }
    \cup { Http(200, "{results:{channels:[{alternatives:[{transcript:...}]}]}}",
                WithTranscript(t)) : t \in Transcripts }

(***************************************************************************)
(* User-visible messages: st.error / st.warning / st.success / st.info     *)
(* and the status_text placeholder.  code and text are the values the      *)
(* f-string interpolates (0 and "" when it interpolates none).             *)
(***************************************************************************)
Msg(level, kind, code, text) ==
    [level |-> level, kind |-> kind, code |-> code, text |-> text]

\* Outcome of a function body: an exception raised (raised # ""), or a
\* returned value, with the messages shown on the way.
Raise(desc) == [raised |-> desc, ret |-> None, msgs |-> <<>>]
Return(v, msgs) == [raised |-> "", ret |-> v, msgs |-> msgs]

\* Result of a call as the caller sees it: escaped # "" when an exception
\* left the function.
Result(ret, msgs, escaped) == [ret |-> ret, msgs |-> msgs, escaped |-> escaped]

(***************************************************************************)
(* Uploaded files (Streamlit's UploadedFile): name, MIME type as sent by   *)
(* the browser ("" when none), size of getvalue() in bytes, and the bytes  *)
(* themselves as an opaque identifier.                                     *)
(***************************************************************************)
MaxSizeMB == 25
MB == 1024 * 1024

File(stem, ext, type, size, data) ==
    [stem |-> stem, ext |-> ext, type |-> type, size |-> size, data |-> data]

FileA == File("a", ".wav", "audio/wav", MaxSizeMB * MB, "bytesA")
FileUpper == File("e", ".WAV", "", 1000, "bytesE")
FileOga == File("d", ".oga", "audio/ogg", 1000, "bytesD")
FileBig == File("big", ".wav", "audio/wav", MaxSizeMB * MB + 1, "bytesBig")
FileTxt == File("notes", ".txt", "text/plain", 1000, "bytesT")

\* The uploader's type list (line 170) is a best-effort filter of the
\* browser widget: a file of any name can reach the script.
Files == {FileA, FileUpper, FileOga, FileBig, FileTxt}
NoFile == File("", "", "", 0, "")

\* audio_file.name
FileName(f) == <<f.stem, f.ext>>
NoName == <<"", "">>

\* str.lower() on the extensions of the model.
Lower(ext) == IF ext = ".WAV" THEN ".wav" ELSE ext

allowed_types ==
    {"audio/wav", "audio/mpeg", "audio/mp3", "audio/m4a", "audio/flac", "audio/ogg"}
allowed_extensions == {".wav", ".mp3", ".m4a", ".flac", ".ogg"}

\* validate_audio_file: the verdict and the kind of its message.  The script
\* calls it only with a file ("if uploaded_file:").
validate_audio_file(audio_file) ==
    IF audio_file.size > MaxSizeMB * MB THEN [ok |-> FALSE, kind |-> "too_large"]
    ELSE IF audio_file.type \notin allowed_types
            /\ Lower(audio_file.ext) \notin allowed_extensions
    THEN [ok |-> FALSE, kind |-> "unsupported_type"]
    ELSE [ok |-> TRUE, kind |-> "valid"]

(***************************************************************************)
(* Requests to the provider, and the provider.  With a deterministic stub  *)
(* (stub.det) the response is a function of the request; otherwise the     *)
(* provider may answer anything.                                           *)
(***************************************************************************)
ContentType(audio_file) == IF audio_file.type = "" THEN "audio/mpeg" ELSE audio_file.type

PrimaryRequest(audio_file) ==
    [transport |-> "multipart", name |-> FileName(audio_file),
     data |-> audio_file.data, content_type |-> ContentType(audio_file)]

AlternativeRequest(audio_file) ==
    [transport |-> "raw", name |-> NoName,
     data |-> audio_file.data, content_type |-> ContentType(audio_file)]

\* The responses the live provider is given in the session model: one of
\* each kind the script tells apart.
LiveResponses ==
    { Exc("Connection reset by peer"),
      Http(401, "invalid credentials", NoJson),
      Http(200, "{results:{channels:[{alternatives:[{transcript:...}]}]}}",
           WithTranscript(<<" ", " ">>)),
      Http(200, "{results:{channels:[{alternatives:[{transcript:...}]}]}}",
           WithTranscript(<<"h", "i">>)),
      Http(200, "{results:{channels:[{alternatives:[{transcript:...}]}]}}",
           WithTranscript(<<" ", "h", " ", "i", " ">>)) }

Provider(request) == IF stub.det THEN {stub.reply[request]} ELSE LiveResponses

(***************************************************************************)
(* transcribe_audio_primary                                                *)
(***************************************************************************)
\* The body of the try block.
primary_body(audio_file, response) ==
    IF response.exc # "" THEN Raise(response.exc)
    ELSE IF response.status # 200 THEN Return(None, <<>>)
    ELSE IF ~response.json.valid THEN Raise("Expecting value")
    ELSE LET result == response.json
             channels == IF result.has_results /\ result.has_channels
                         THEN result.channels ELSE <<>>
         IN  IF channels = <<>> THEN Return(None, <<>>)
             ELSE LET alternatives == IF channels[1].has_alternatives
                                      THEN channels[1].alternatives ELSE <<>>
                  IN  IF alternatives = <<>> THEN Return(None, <<>>)
                      ELSE LET a == alternatives[1]
                               transcript == IF a.has_transcript THEN a.transcript ELSE <<>>
                           IN  IF a.has_transcript /\ ~a.is_str
                               THEN Raise("'NoneType' object has no attribute 'strip'")
                               ELSE IF strip(transcript) = <<>> THEN Return(None, <<>>)
                               ELSE Return(Some(strip(transcript)), <<>>)

\* A primary that reports its HTTP failure like the alternative does.
transcribe_audio_primary_loud(audio_file, response) ==
    LET b == primary_body(audio_file, response)
    IN  IF b.raised # "" THEN Result(None, <<>>, "")
        ELSE IF response.status # 200
        THEN Result(None, <<Msg("error", "api_error", response.status, response.text)>>, "")
        ELSE Result(b.ret, b.msgs, "")

\* try: ... except Exception: return None
transcribe_audio_primary(audio_file, response) ==
    LET b == primary_body(audio_file, response)
    IN  IF b.raised # "" THEN Result(None, <<>>, "")
        ELSE Result(b.ret, b.msgs, "")

(***************************************************************************)
(* transcribe_audio_alternative                                            *)
(***************************************************************************)
\* The body of the try block.
alternative_body(audio_file, response) ==
    IF response.exc # "" THEN Raise(response.exc)
    ELSE IF response.status # 200
    THEN Return(None, <<Msg("error", "api_error", response.status, response.text)>>)
    ELSE IF ~response.json.valid THEN Raise("Expecting value")
    ELSE LET result == response.json
         IN  IF ~result.has_results THEN Raise("'results'")
             ELSE IF ~result.has_channels THEN Raise("'channels'")
             ELSE IF result.channels = <<>> THEN Raise("list index out of range")
             ELSE IF ~result.channels[1].has_alternatives THEN Raise("'alternatives'")
             ELSE IF result.channels[1].alternatives = <<>>
             THEN Raise("list index out of range")
             ELSE LET a == result.channels[1].alternatives[1]
                  IN  IF ~a.has_transcript THEN Raise("'transcript'")
                      ELSE IF ~a.is_str
                      THEN Raise("'NoneType' object has no attribute 'strip'")
                      ELSE IF strip(a.transcript) = <<>>
                      THEN Return(None, <<Msg("warning", "empty_transcript", 0, "")>>)
                      ELSE Return(Some(strip(a.transcript)), <<>>)

\* An alternative whose handler catches only the requests exceptions.
transcribe_audio_alternative_narrow(audio_file, response) ==
    LET b == alternative_body(audio_file, response)
    IN  IF b.raised # "" /\ response.exc # ""
        THEN Result(None, <<Msg("error", "exception", 0, b.raised)>>, "")
        ELSE IF b.raised # "" THEN Result(None, <<>>, b.raised)
        ELSE Result(b.ret, b.msgs, "")

\* An alternative that reports an HTTP failure without the response body.
transcribe_audio_alternative_nobody(audio_file, response) ==
    LET b == alternative_body(audio_file, response)
    IN  IF b.raised # ""
        THEN Result(None, <<Msg("error", "exception", 0, b.raised)>>, "")
        ELSE IF response.status # 200
        THEN Result(None, <<Msg("error", "api_error", response.status, "")>>, "")
        ELSE Result(b.ret, b.msgs, "")

\* try: ... except Exception as e: st.error(str(e)); return None
transcribe_audio_alternative(audio_file, response) ==
    LET b == alternative_body(audio_file, response)
    IN  IF b.raised # ""
        THEN Result(None, <<Msg("error", "exception", 0, b.raised)>>, "")
        ELSE Result(b.ret, b.msgs, "")

(***************************************************************************)
(* Lines 201-212: the primary attempt, then the alternative if the primary *)
(* returned None.  responseB is what the provider answers to the raw-body  *)
(* request; it is read only when that request is made.  calls lists the    *)
(* requests made, in order.                                                *)
(***************************************************************************)
Acquisition(f, calls, rA, rB, r, msgs) ==
    [ran |-> TRUE, file |-> f, calls |-> calls, respA |-> rA, respB |-> rB,
     ret |-> r.ret, msgs |-> msgs, escaped |-> r.escaped]

NoAcquisition ==
    [ran |-> FALSE, file |-> NoFile, calls |-> <<>>, respA |-> NoResponse,
     respB |-> NoResponse, ret |-> None, msgs |-> <<>>, escaped |-> ""]

\* A dispatch that remembers, in the process, that a transcription was done
\* before and then goes to the alternative at once.
Transcribe_remembering(uploaded_file, responseA, responseB) ==
    IF acqlog # <<>>
    THEN LET b == transcribe_audio_alternative(uploaded_file, responseB)
         IN  Acquisition(uploaded_file, <<"B">>, NoResponse, responseB, b, b.msgs)
    ELSE LET a == transcribe_audio_primary(uploaded_file, responseA)
         IN  IF ~a.ret.some
             THEN LET b == transcribe_audio_alternative(uploaded_file, responseB)
                  IN  Acquisition(uploaded_file, <<"A", "B">>, responseA, responseB, b,
                                  a.msgs \o <<Msg("status", "primary_failed", 0, "")>> \o b.msgs)
             ELSE Acquisition(uploaded_file, <<"A">>, responseA, NoResponse, a,
                              a.msgs \o <<Msg("status", "primary_succeeded", 0, "")>>)

\* A dispatch that always makes both requests.
Transcribe_both(uploaded_file, responseA, responseB) ==
    LET a == transcribe_audio_primary(uploaded_file, responseA)
        b == transcribe_audio_alternative(uploaded_file, responseB)
    IN  IF ~a.ret.some
        THEN Acquisition(uploaded_file, <<"A", "B">>, responseA, responseB, b,
                         a.msgs \o <<Msg("status", "primary_failed", 0, "")>> \o b.msgs)
        ELSE Acquisition(uploaded_file, <<"A", "B">>, responseA, responseB, a,
                         a.msgs \o <<Msg("status", "primary_succeeded", 0, "")>>)

Transcribe(uploaded_file, responseA, responseB) ==
    LET a == transcribe_audio_primary(uploaded_file, responseA)
    IN  IF a.escaped # ""
        THEN Acquisition(uploaded_file, <<"A">>, responseA, NoResponse, a, a.msgs)
        ELSE IF ~a.ret.some
        THEN LET b == transcribe_audio_alternative(uploaded_file, responseB)
             IN  Acquisition(uploaded_file, <<"A", "B">>, responseA, responseB, b,
                             a.msgs \o <<Msg("status", "primary_failed", 0, "")>> \o b.msgs)
        ELSE Acquisition(uploaded_file, <<"A">>, responseA, NoResponse, a,
                         a.msgs \o <<Msg("status", "primary_succeeded", 0, "")>>)

\* Every way the two-stage transcription of a file can go.
TranscribeOutcomes(uploaded_file) ==
    { Transcribe(uploaded_file, rA, rB) :
        rA \in Provider(PrimaryRequest(uploaded_file)),
        rB \in Provider(AlternativeRequest(uploaded_file)) }

(***************************************************************************)
(* st.session_state and the chat messages                                  *)
(***************************************************************************)
ChatMessage(type, tmpl, transcript, text) ==
    [type |-> type, tmpl |-> tmpl, transcript |-> transcript, text |-> text]

\* Line 41, lines 222-231 and lines 377-380.
DefaultSystemMessage == ChatMessage("system", "default", <<>>, "")
ContextMessage(transcript) == ChatMessage("system", "context", transcript, "")
ClearedContextMessage(transcript) == ChatMessage("system", "context_short", transcript, "")
HumanMessage(prompt) == ChatMessage("human", "text", <<>>, prompt)
AIMessage(content) == ChatMessage("ai", "text", <<>>, content)

EmptySession ==
    [has_history |-> FALSE, history |-> <<>>,
     has_transcript |-> FALSE, transcript |-> <<>>,
     has_last |-> FALSE, last_uploaded_file |-> NoName]

\* Lines 39-42.
SessionInit(s) ==
    IF s.has_history THEN s
    ELSE [s EXCEPT !.has_history = TRUE, !.history = <<DefaultSystemMessage>>]

\* Lines 186-187.
needs_transcription(s, uploaded_file) ==
    LET file_changed == ~s.has_last \/ s.last_uploaded_file # FileName(uploaded_file)
    IN  ~s.has_transcript \/ file_changed

\* Lines 216-240: what the script does with the transcription's result.
StoreTranscript(s, uploaded_file, acq) ==
    IF Truthy(acq.ret)
    THEN [session |-> [s EXCEPT !.has_transcript = TRUE, !.transcript = acq.ret.text,
                                !.has_last = TRUE,
                                !.last_uploaded_file = FileName(uploaded_file),
                                !.history = <<ContextMessage(acq.ret.text)>>],
          msgs |-> <<Msg("status", "completed", 0, "")>>]
    ELSE [session |-> s,
          msgs |-> <<Msg("status", "both_failed", 0, ""),
                     Msg("error", "unable_to_transcribe", 0, "")>>]

(***************************************************************************)
(* Lines 283-346: a submitted prompt.                                      *)
(***************************************************************************)
HistoryLimit == 5
RecentMessages == 4

Last(n, h) == SubSeq(h, IF Len(h) > n THEN Len(h) - n + 1 ELSE 1, Len(h))

\* A limit that is compared against one message more.
limited_history_late(history) ==
    IF Len(history) > HistoryLimit + 1
    THEN SubSeq(history, 1, 1) \o Last(RecentMessages, history)
    ELSE history

\* Lines 306-311.
limited_history(history) ==
    IF Len(history) > HistoryLimit
    THEN SubSeq(history, 1, 1) \o Last(RecentMessages, history)
    ELSE history

\* Lines 345-346.
PopIfHuman(history) ==
    IF history # <<>> /\ history[Len(history)].type = "human"
    THEN SubSeq(history, 1, Len(history) - 1)
    ELSE history

NoLlm == [called |-> FALSE, sent |-> <<>>, history |-> <<>>, raised |-> FALSE]

\* llm is "ok" (invoke returns reply), "quota" (it raises a rate-limit
\* error) or "error" (it raises anything else).
ChatInput_keeping_prompt(s, prompt, llm, reply) ==
    LET h1 == Append(s.history, HumanMessage(prompt))
        sent == limited_history(h1)
        call == [called |-> TRUE, sent |-> sent, history |-> h1, raised |-> llm # "ok"]
    IN  IF llm = "ok"
        THEN [session |-> [s EXCEPT !.history = Append(h1, AIMessage(reply))],
              llm |-> call, msgs |-> <<>>]
        ELSE [session |-> [s EXCEPT !.history = h1],
              llm |-> call, msgs |-> <<Msg("error", "llm_error", 0, llm)>>]

ChatInput(s, prompt, llm, reply) ==
    LET h1 == Append(s.history, HumanMessage(prompt))
        sent == limited_history(h1)
        call == [called |-> TRUE, sent |-> sent, history |-> h1, raised |-> llm # "ok"]
    IN  IF llm = "ok"
        THEN [session |-> [s EXCEPT !.history = Append(h1, AIMessage(reply))],
              llm |-> call, msgs |-> <<>>]
        ELSE [session |-> [s EXCEPT !.history = PopIfHuman(h1)],
              llm |-> call,
              msgs |-> IF llm = "quota"
                       THEN <<Msg("error", "rate_limit", 0, ""),
                              Msg("warning", "rate_limit_help", 0, ""),
                              Msg("info", "rate_limit_tip", 0, "")>>
                       ELSE <<Msg("error", "llm_error", 0, llm)>>]

(***************************************************************************)
(* Lines 373-389: the sidebar buttons.  rerun: st.rerun() was called.      *)
(***************************************************************************)
Sidebar(s, button) ==
    IF button = "clear"
    THEN [session |-> IF s.has_transcript
                      THEN [s EXCEPT !.history = <<ClearedContextMessage(s.transcript)>>]
                      ELSE s,
          rerun |-> TRUE]
    ELSE IF button = "new"
    THEN [session |-> EmptySession, rerun |-> TRUE]
    ELSE [session |-> s, rerun |-> FALSE]

(***************************************************************************)
(* One run of the script, top to bottom.  An event is what the user did to *)
(* trigger the run: a submitted prompt (with what the language model then  *)
(* does), a sidebar button, or neither.                                    *)
(***************************************************************************)
Event(prompt, llm, reply, button) ==
    [prompt |-> prompt, llm |-> llm, reply |-> reply, button |-> button]
NoEvent == Event("", "ok", "", "none")

Upload(f) == [present |-> TRUE, file |-> f]
NoUpload == [present |-> FALSE, file |-> NoFile]

\* What a run showed, and what it did.  stopped: the run ended before the
\* sidebar (st.stop(), or an uncaught exception).
Output(validation, stopped, acq, displayed, s, f, llm, msgs, sidebar, rerun) ==
    [validation |-> validation, stopped |-> stopped, acq |-> acq,
     displayed |-> displayed,
     displayed_text |-> IF displayed THEN s.transcript ELSE <<>>,
     download_name |-> IF displayed THEN FileName(f) ELSE NoName,
     llm |-> llm, msgs |-> msgs, sidebar |-> sidebar,
     export |-> sidebar /\ ~rerun /\ s.has_history /\ Len(s.history) > 1,
     rerun |-> rerun]

\* Lines 249-346 and 351-414: the transcript and the chat (inside
\* "if uploaded_file:"), then the sidebar.
DisplayAndSidebar(s, up, validation, acq, msgs, ev) ==
    LET displayed == up.present /\ s.has_transcript /\ s.transcript # <<>>
        chat == IF displayed /\ ev.prompt # ""
                THEN ChatInput(s, ev.prompt, ev.llm, ev.reply)
                ELSE [session |-> s, llm |-> NoLlm, msgs |-> <<>>]
        side == Sidebar(chat.session, ev.button)
    IN  [session |-> side.session,
         out |-> Output(validation, FALSE, acq, displayed, s, up.file, chat.llm,
                        msgs \o chat.msgs, TRUE, side.rerun)]

\* Lines 189-244 for one way the transcription can go.
TranscriptionSection(s, up, acq, ev) ==
    IF acq.escaped # ""
    THEN [session |-> s,
          out |-> Output("valid", TRUE, acq, FALSE, s, up.file, NoLlm,
                         acq.msgs \o <<Msg("error", "uncaught_exception", 0, acq.escaped)>>,
                         FALSE, FALSE)]
    ELSE LET stored == StoreTranscript(s, up.file, acq)
             block == [acq EXCEPT !.msgs = acq.msgs \o stored.msgs]
         IN  DisplayAndSidebar(stored.session, up, "valid", block, block.msgs, ev)

\* Lines 39-42 and 175-244, then the rest of the script.
RunOutcomes(s0, up, ev) ==
    LET s == SessionInit(s0)
    IN  IF ~up.present
        THEN {DisplayAndSidebar(s, up, "none", NoAcquisition, <<>>, ev)}
        ELSE LET v == validate_audio_file(up.file)
             IN  IF ~v.ok
                 THEN {[session |-> s,
                        out |-> Output(v.kind, TRUE, NoAcquisition, FALSE, s, up.file, NoLlm,
                                       <<Msg("error", v.kind, 0, "")>>, FALSE, FALSE)]}
                 ELSE IF needs_transcription(s, up.file)
                 THEN {TranscriptionSection(s, up, acq, ev) :
                         acq \in TranscribeOutcomes(up.file)}
                 ELSE {DisplayAndSidebar(s, up, v.kind, NoAcquisition, <<>>, ev)}

\* The run, and the rerun st.rerun() asks for: the script runs again with
\* no event, with any of the widget states ups.
RunAndRerun(s0, up, ev, ups) ==
    LET first == RunOutcomes(s0, up, ev)
        again == {o.session : o \in {x \in first : x.out.rerun}}
    IN  {o \in first : ~o.out.rerun}
        \cup UNION {RunOutcomes(s, u, NoEvent) : s \in again, u \in ups}

(***************************************************************************)
(* The state machine                                                       *)
(***************************************************************************)
Prompts == {"p1", "p2"}
Replies == {"r1"}
LlmOutcomes == {"ok", "quota", "error"}

NoStub == [det |-> FALSE, reply |-> <<>>]

\* The page is opened: the first run, with no file.
FirstRun == CHOOSE o \in RunOutcomes(EmptySession, NoUpload, NoEvent) : TRUE

Init ==
    /\ session = FirstRun.session
    /\ uploaded = NoUpload
    /\ out = FirstRun.out
    /\ stub = NoStub
    /\ acqlog = <<>>

UploadFile(f) ==
    /\ ~stub.det
    /\ uploaded' = Upload(f)
    /\ \E o \in RunOutcomes(session, Upload(f), NoEvent) :
          session' = o.session /\ out' = o.out
    /\ UNCHANGED <<stub, acqlog>>

RemoveFile ==
    /\ ~stub.det
    /\ uploaded.present
    /\ uploaded' = NoUpload
    /\ \E o \in RunOutcomes(session, NoUpload, NoEvent) :
          session' = o.session /\ out' = o.out
    /\ UNCHANGED <<stub, acqlog>>

\* The chat input exists only where the last run rendered it.
SubmitPrompt(p, llm, r) ==
    /\ ~stub.det
    /\ out.displayed
    /\ Len(session.history) < MaxHistory
    /\ \E o \in RunOutcomes(session, uploaded, Event(p, llm, r, "none")) :
          session' = o.session /\ out' = o.out
    /\ UNCHANGED <<uploaded, stub, acqlog>>

\* A download button (lines 262-267, 399-405): a run with nothing to handle.
ClickDownload ==
    /\ ~stub.det
    /\ out.displayed \/ out.export
    /\ \E o \in RunOutcomes(session, uploaded, NoEvent) :
          session' = o.session /\ out' = o.out
    /\ UNCHANGED <<uploaded, stub, acqlog>>

ClearChatHistory ==
    /\ ~stub.det
    /\ out.sidebar
    /\ \E o \in RunAndRerun(session, uploaded, Event("", "ok", "", "clear"), {uploaded}) :
          session' = o.session /\ out' = o.out
    /\ UNCHANGED <<uploaded, stub, acqlog>>

\* session_state.clear() also drops the uploader's widget state: the rerun
\* sees the file still, or no file.
NewSession ==
    /\ ~stub.det
    /\ out.sidebar
    /\ \E u \in {uploaded, NoUpload} :
          /\ uploaded' = u
          /\ \E o \in RunAndRerun(session, uploaded, Event("", "ok", "", "new"), {u}) :
                session' = o.session /\ out' = o.out
    /\ UNCHANGED <<stub, acqlog>>

Next ==
    \/ \E f \in Files : UploadFile(f)
    \/ RemoveFile
    \/ \E p \in Prompts, llm \in LlmOutcomes, r \in Replies : SubmitPrompt(p, llm, r)
    \/ ClickDownload
    \/ ClearChatHistory
    \/ NewSession

Spec == Init /\ [][Next]_vars

(***************************************************************************)
(* The transcription against a deterministic stub provider.  The stub is   *)
(* fixed at the start: every response to the two requests for FileA, and   *)
(* the live responses for FileUpper.  Each step, a visitor opens the page and  *)
(* uploads a file; acqlog keeps what the transcription section of that run *)
(* did.                                                                    *)
(***************************************************************************)
StubFiles == {FileA, FileUpper}
RequestsOf(f) == {PrimaryRequest(f), AlternativeRequest(f)}
StubRequests == RequestsOf(FileA) \cup RequestsOf(FileUpper)

InitStub ==
    /\ session = FirstRun.session
    /\ uploaded = NoUpload
    /\ out = FirstRun.out
    /\ \E ra \in [RequestsOf(FileA) -> Responses], rb \in [RequestsOf(FileUpper) -> LiveResponses] :
          stub = [det |-> TRUE,
                  reply |-> [r \in StubRequests |->
                               IF r \in RequestsOf(FileA) THEN ra[r] ELSE rb[r]]]
    /\ acqlog = <<>>

AcquireCall(f) ==
    /\ stub.det
    /\ Len(acqlog) < MaxCalls
    /\ \E o \in RunOutcomes(FirstRun.session, Upload(f), NoEvent) :
          acqlog' = Append(acqlog, o.out.acq)
    /\ UNCHANGED <<session, uploaded, out, stub>>

NextStub == \E f \in StubFiles : AcquireCall(f)

SpecStub == InitStub /\ [][NextStub]_vars

(***************************************************************************)
(* Properties.  Under SpecStub they speak of the entries of acqlog: every  *)
(* pair of responses to the two requests occurs there.                     *)
(***************************************************************************)
Entries == {acqlog[i] : i \in 1..Len(acqlog)}
Shown(e) == {e.msgs[k] : k \in 1..Len(e.msgs)}

\* The response is HTTP 200 and carries results.channels[0].alternatives[0]
\* .transcript as a string.
HasTranscript(r) ==
    /\ r.exc = "" /\ r.status = 200 /\ r.json.valid
    /\ r.json.has_results /\ r.json.has_channels /\ r.json.channels # <<>>
    /\ r.json.channels[1].has_alternatives /\ r.json.channels[1].alternatives # <<>>
    /\ r.json.channels[1].alternatives[1].has_transcript
    /\ r.json.channels[1].alternatives[1].is_str
TranscriptOf(r) == r.json.channels[1].alternatives[1].transcript
HasText(r) == HasTranscript(r) /\ strip(TranscriptOf(r)) # <<>>
HasEmptyText(r) == HasTranscript(r) /\ strip(TranscriptOf(r)) = <<>>

\* C1: when the multipart attempt gets HTTP 200 with a transcript that is
\* non-empty after trimming, the transcription returns exactly the trimmed
\* text and the raw-body attempt is not made.
C1_PrimarySuccessSkipsAlternative ==
    \A e \in Entries :
        HasText(e.respA) =>
            /\ e.ret = Some(strip(TranscriptOf(e.respA)))
            /\ e.calls = <<"A">>
            /\ e.respB = NoResponse

C1_Witness ==
    \E e \in Entries :
        /\ HasText(e.respA)
        /\ TranscriptOf(e.respA) = <<" ", "h", " ", "i", " ">>
        /\ e.ret.text = <<"h", " ", "i">>

\* C2: when the multipart attempt fails softly (non-200, missing structure,
\* empty trimmed text, any exception), the raw-body attempt is made exactly
\* once, after it; no exception leaves the first attempt; and no message
\* shows the first attempt's status, body or error (a code or text shown
\* that equals the first attempt's is the second attempt's own).
C2_SoftFailureFallsBackSilently ==
    \A e \in Entries :
        ~HasText(e.respA) =>
            /\ e.calls = <<"A", "B">>
            /\ e.escaped = ""
            /\ \A m \in Shown(e) :
                  /\ (m.code # 0 /\ m.code = e.respA.status) => m.code = e.respB.status
                  /\ (m.text # "" /\ m.text \in {e.respA.exc, e.respA.text,
                                                 primary_body(e.file, e.respA).raised})
                        => m.text \in {e.respB.exc, e.respB.text,
                                       alternative_body(e.file, e.respB).raised}

C2_Witness ==
    \E e \in Entries :
        /\ e.respA.status = 500
        /\ e.respB.status = 401
        /\ e.calls = <<"A", "B">>
        /\ \E m \in Shown(e) : m.code = 401

\* C3 (as claimed): when both attempts get HTTP 200 with a transcript that
\* is empty after trimming, the outcome is the "no speech" warning and no
\* error is shown for that transcription.
C3_BothEmptyIsWarningNotError ==
    \A e \in Entries :
        (HasEmptyText(e.respA) /\ HasEmptyText(e.respB)) =>
            /\ \E m \in Shown(e) : m.level = "warning" /\ m.kind = "empty_transcript"
            /\ \A m \in Shown(e) : m.level # "error"

\* C4: when the raw-body attempt is made and gets a non-200 status, an error
\* is shown that carries that status and the raw response body, and no
\* transcript is returned, whatever the first attempt's failure was.
C4_AlternativeHttpErrorIsReported ==
    \A e \in Entries :
        (e.calls = <<"A", "B">> /\ e.respB.exc = "" /\ e.respB.status # 200) =>
            /\ e.ret = None
            /\ \E m \in Shown(e) :
                  /\ m.level = "error" /\ m.kind = "api_error"
                  /\ m.code = e.respB.status
                  /\ m.text = e.respB.text

C4_Witness ==
    \E e \in Entries :
        /\ e.respA.exc = "Connection reset by peer"
        /\ e.respB.status = 500
        /\ \E m \in Shown(e) : m.code = 500 /\ m.text = "server overloaded"

\* The three outcomes of a transcription, as the user sees them.
IsSuccess(e) == Truthy(e.ret)
IsEmpty(e) == \E m \in Shown(e) : m.level = "warning" /\ m.kind = "empty_transcript"
IsFailure(e) ==
    \E m \in Shown(e) : m.level = "error" /\ m.kind \in {"api_error", "exception"}

\* C5: no exception leaves the transcription: a fault of the raw-body
\* attempt (transport exception, non-JSON body, missing key, empty list) is
\* shown as an error with the exception's description and None is returned;
\* and every transcription ends as exactly one of success (a text), empty
\* (the warning) or failure (an error of the attempt).
C5_NoExceptionEscapes ==
    \A e \in Entries :
        /\ e.escaped = ""
        /\ (e.calls = <<"A", "B">>
            /\ (e.respB.exc # "" \/ (e.respB.status = 200 /\ ~HasTranscript(e.respB)))) =>
              /\ e.ret = None
              /\ \E m \in Shown(e) :
                    /\ m.level = "error" /\ m.kind = "exception" /\ m.text # ""
                    /\ e.respB.exc # "" => m.text = e.respB.exc
        /\ (IsSuccess(e) /\ ~IsEmpty(e) /\ ~IsFailure(e))
           \/ (~IsSuccess(e) /\ IsEmpty(e) /\ ~IsFailure(e))
           \/ (~IsSuccess(e) /\ ~IsEmpty(e) /\ IsFailure(e))

C5_Witness ==
    \E e \in Entries :
        /\ e.calls = <<"A", "B">>
        /\ e.respB.status = 200 /\ e.respB.json.valid /\ ~e.respB.json.has_results
        /\ \E m \in Shown(e) : m.kind = "exception" /\ m.text = "'results'"

C6_SentHistoryIsCapped ==
    out.llm.called =>
        LET h == out.llm.history
            sent == out.llm.sent
            n == Len(sent) - 1
        IN  /\ Len(sent) <= 5
            /\ n = (IF Len(h) - 1 > 4 THEN 4 ELSE Len(h) - 1)
            /\ sent[1] = h[1]
            /\ h[1].type = "system"
            /\ \A k \in 1..n : sent[1 + k] = h[Len(h) - n + k]
            /\ sent[Len(sent)].type = "human"

C6_Witness ==
    /\ out.llm.called
    /\ Len(out.llm.history) = 6
    /\ Len(out.llm.sent) = 5
    /\ out.llm.sent[2] = out.llm.history[3]

\* C7 (as claimed): a file larger than 25 MB, or whose extension is not one
\* of .wav .mp3 .m4a .flac .ogg, is rejected, and neither attempt is made.
C7_OversizedOrForeignExtensionRejected ==
    (uploaded.present
     /\ (uploaded.file.size > 25 * 1024 * 1024
         \/ Lower(uploaded.file.ext) \notin {".wav", ".mp3", ".m4a", ".flac", ".ogg"})) =>
        /\ out.stopped
        /\ out.validation \in {"too_large", "unsupported_type"}
        /\ ~out.acq.ran

\* C9 (as claimed): whenever a transcript is displayed with a file uploaded,
\* session.last_uploaded_file is that file's name.
C9_DisplayedTranscriptIsOfUploadedFile ==
    (out.displayed /\ uploaded.present) =>
        /\ session.has_last
        /\ session.last_uploaded_file = FileName(uploaded.file)

====
